---- MODULE Spec2Model ----
(***************************************************************************)
(* node_module_cleaner (src/main.rs): the table of node_modules folders,   *)
(* its cursor, its marks, the running total of the marked sizes, sorting,  *)
(* reversal and the bulk removal of the marked folders.                    *)
(*                                                                         *)
(* Strings are sequences of Unicode code points, so that the comparisons   *)
(* of sort_by_key, the prefix stripping of get_array, the deny list of     *)
(* generate_data and the formatting and parsing of ByteSize are computed   *)
(* on the characters, as the program computes them.                        *)
(***************************************************************************)
EXTENDS Integers, Sequences, FiniteSets, Bags, TLC

\* ------------------------------------------------------------------ bounds
\* The most projects the home directory holds when the program starts.
MaxProjects == 3

\* The running total selected_size is followed while it stays within this many
\* bytes of 0, on either side of the wrap-around: marks set and cleared on
\* different rows let it drift without limit.
MaxSelectedSize == 3000

\* -------------------------------------------------------- machine integers
\* usize and u64 arithmetic wraps modulo 2^64 in a release build. TLC's
\* integers are 32 bits wide, so the model keeps the wrap-around and shrinks
\* the word: every quantity of the model is far below 2^20.
WordModulus == 2 ^ 20

\* Option::<usize>::None of TableState::selected.
NONE == -1

\* ------------------------------------------------------------------ strings
\* "/h": the home directory my_home() resolves to.
HOME == <<47, 104>>

\* "/node_modules" is 13 characters long (generate_data pops 13 characters).
NODE_MODULES == <<110, 111, 100, 101, 95, 109, 111, 100, 117, 108, 101, 115>>

\* "  [ ]" and "  [x]" glyphs: two spaces and U+2610 / U+2611.
UNCHECKED == <<32, 32, 9744>>

CHECKED == <<32, 32, 9745>>

\* str::starts_with
StartsWith(s, p) ==
    /\ Len(p) <= Len(s)
    /\ SubSeq(s, 1, Len(p)) = p

\* str::contains
Contains(s, sub) ==
    \E k \in 0..(Len(s) - Len(sub)) : SubSeq(s, k + 1, k + Len(sub)) = sub

\* str::trim_start_matches: strips the prefix as many times as it repeats.
RECURSIVE trim_start_matches(_, _)
trim_start_matches(s, p) ==
    IF p # <<>> /\ StartsWith(s, p)
    THEN trim_start_matches(SubSeq(s, Len(p) + 1, Len(s)), p)
    ELSE s

\* Ord for String: lexicographic on the characters (a < b).
RECURSIVE StrLess(_, _)
StrLess(a, b) ==
    IF b = <<>> THEN FALSE
    ELSE IF a = <<>> THEN TRUE
    ELSE IF Head(a) # Head(b) THEN Head(a) < Head(b)
    ELSE StrLess(Tail(a), Tail(b))

StrLeq(a, b) == a = b \/ StrLess(a, b)

\* UnicodeWidthStr::width: the sum of the characters' column widths; control
\* characters take no column, every other character of the model takes one.
RECURSIVE UnicodeWidth(_)
UnicodeWidth(s) ==
    IF s = <<>> THEN 0
    ELSE (IF Head(s) < 32 THEN 0 ELSE 1) + UnicodeWidth(Tail(s))

\* ----------------------------------------------------------------- ByteSize
RECURSIVE Digits(_)
\* The decimal digits of n, as characters.
Digits(n) ==
    IF n < 10 THEN <<48 + n>>
    ELSE Digits(n \div 10) \o <<48 + (n % 10)>>

\* ByteSize's Display: "<n> B" below 1000 bytes, otherwise the size in the
\* largest unit not above it with one decimal, "1.2 KB" (format!("{:.1}")
\* rounds to the nearest tenth).
ByteSizeToString(bytes) ==
    IF bytes < 1000
    THEN Digits(bytes) \o <<32, 66>>
    ELSE LET unit   == IF bytes < 1000000 THEN 1000 ELSE 1000000
             prefix == IF bytes < 1000000 THEN 75 ELSE 77
             tenths == (bytes * 10 + unit \div 2) \div unit
         IN  Digits(tenths \div 10) \o <<46>> \o Digits(tenths % 10)
                 \o <<32, prefix, 66>>

IsDigit(c) == c >= 48 /\ c <= 57

RECURSIVE TakeNumber(_)
\* take_while(value, |c| c.is_ascii_digit() || c == '.')
TakeNumber(s) ==
    IF s # <<>> /\ (IsDigit(Head(s)) \/ Head(s) = 46)
    THEN <<Head(s)>> \o TakeNumber(Tail(s))
    ELSE <<>>

RECURSIVE SkipNumber(_)
\* skip_while(value, |c| c.is_whitespace() || c.is_ascii_digit() || c == '.')
SkipNumber(s) ==
    IF s # <<>> /\ (IsDigit(Head(s)) \/ Head(s) = 46 \/ Head(s) = 32)
    THEN SkipNumber(Tail(s))
    ELSE s

RECURSIVE ParseInt(_, _)
\* The value of a run of digits, after the value acc of the digits before it.
ParseInt(s, acc) ==
    IF s = <<>> THEN acc ELSE ParseInt(Tail(s), acc * 10 + (Head(s) - 48))

RECURSIVE Pow10(_)
Pow10(k) == IF k = 0 THEN 1 ELSE 10 * Pow10(k - 1)

\* The multiplier of a unit suffix ("B", "KB", "MB"); 0 when it is no unit.
UnitOf(suffix) ==
    IF suffix = <<66>> THEN 1
    ELSE IF suffix = <<75, 66>> THEN 1000
    ELSE IF suffix = <<77, 66>> THEN 1000000
    ELSE 0

\* ByteSize::from_str(..).unwrap(): the number before the unit, times the
\* unit, truncated to whole bytes. NONE when the text does not parse (the
\* unwrap panics).
ByteSizeFromStr(s) ==
    LET number == TakeNumber(s)
        dot    == IF \E k \in 1..Len(number) : number[k] = 46
                  THEN CHOOSE k \in 1..Len(number) : number[k] = 46
                  ELSE Len(number) + 1
        whole  == SubSeq(number, 1, dot - 1)
        frac   == SubSeq(number, dot + 1, Len(number))
        unit   == UnitOf(SkipNumber(s))
    IN  IF number = <<>> \/ whole = <<>> \/ unit = 0
           \/ \E k \in 1..Len(frac) : frac[k] = 46
        THEN NONE
        ELSE (ParseInt(whole \o frac, 0) * unit) \div Pow10(Len(frac))

\* ------------------------------------------------------------- file system
\* The home directory holds some of four projects. Each is given by the
\* directory entries WalkDir yields for it (depth first, a directory before
\* its children) and by its regular files.
\*   a      /h/a/node_modules          (150 bytes), /h/a holds 1234 bytes;
\*          a package of it has a folder /h/a/node_modules/n/node_modules
\*   b      /h/b/node_modules          (600 bytes), /h/b holds  600 bytes
\*   copy   /h/h/a/node_modules        a copy of the home tree kept inside it
\*   cache  /h/c/.cache/node_modules   under a deny-listed directory
Projects == {"a", "b", "copy", "cache"}

\* Three projects of different names: a, b and
\*   d      /h/d/node_modules          (600 bytes), /h/d holds  600 bytes
DistinctProjects == {"a", "b", "d"}

Dir(path) == [path |-> path, is_dir |-> TRUE, bytes |-> 0]

File(path, bytes) == [path |-> path, is_dir |-> FALSE, bytes |-> bytes]

ProjectEntries(p) ==
    IF p = "a" THEN
        << Dir(HOME \o <<47, 97>>),
           File(HOME \o <<47, 97, 47, 115>>, 1084),
           Dir(HOME \o <<47, 97, 47>> \o NODE_MODULES),
           File(HOME \o <<47, 97, 47>> \o NODE_MODULES \o <<47, 120>>, 100),
           Dir(HOME \o <<47, 97, 47>> \o NODE_MODULES \o <<47, 110>>),
           Dir(HOME \o <<47, 97, 47>> \o NODE_MODULES \o <<47, 110, 47>> \o NODE_MODULES),
           File(HOME \o <<47, 97, 47>> \o NODE_MODULES \o <<47, 110, 47>> \o NODE_MODULES
                    \o <<47, 121>>, 50) >>
    ELSE IF p = "b" THEN
        << Dir(HOME \o <<47, 98>>),
           Dir(HOME \o <<47, 98, 47>> \o NODE_MODULES),
           File(HOME \o <<47, 98, 47>> \o NODE_MODULES \o <<47, 120>>, 600) >>
    ELSE IF p = "d" THEN
        << Dir(HOME \o <<47, 100>>),
           Dir(HOME \o <<47, 100, 47>> \o NODE_MODULES),
           File(HOME \o <<47, 100, 47>> \o NODE_MODULES \o <<47, 120>>, 600) >>
    ELSE IF p = "copy" THEN
        << Dir(HOME \o HOME),
           Dir(HOME \o HOME \o <<47, 97>>),
           Dir(HOME \o HOME \o <<47, 97, 47>> \o NODE_MODULES),
           File(HOME \o HOME \o <<47, 97, 47>> \o NODE_MODULES \o <<47, 120>>, 20) >>
    ELSE
        << Dir(HOME \o <<47, 99>>),
           Dir(HOME \o <<47, 99, 47, 46, 99, 97, 99, 104, 101>>),
           Dir(HOME \o <<47, 99, 47, 46, 99, 97, 99, 104, 101, 47>> \o NODE_MODULES),
           File(HOME \o <<47, 99, 47, 46, 99, 97, 99, 104, 101, 47>> \o NODE_MODULES
                    \o <<47, 120>>, 30) >>

Range(seq) == {seq[k] : k \in DOMAIN seq}

\* The sequences that list every element of the set S once.
Orderings(S) ==
    {seq \in [1..Cardinality(S) -> S] : Range(seq) = S}

RECURSIVE Flatten(_)
Flatten(seqs) ==
    IF seqs = <<>> THEN <<>> ELSE Head(seqs) \o Flatten(Tail(seqs))

\* WalkDir::new(home): the home directory, then the subtree of each of its
\* children, in the order the directory is read (order \in Orderings).
WalkDir(order) ==
    <<Dir(HOME)>> \o Flatten([k \in DOMAIN order |-> ProjectEntries(order[k])])

\* Whether path lies in the subtree of dir (dir itself included).
Under(path, dir) ==
    /\ StartsWith(path, dir)
    /\ (Len(path) = Len(dir) \/ path[Len(dir) + 1] = 47)

RECURSIVE SumBytes(_)
SumBytes(entries) ==
    IF entries = {} THEN 0
    ELSE LET e == CHOOSE x \in entries : TRUE
         IN  e.bytes + SumBytes(entries \ {e})

\* dir_size::get_size_in_bytes(path): the bytes of the regular files in the
\* subtree of path; NONE (an Err) when path is no directory of the tree.
get_size_in_bytes(tree, path) ==
    IF \E e \in tree : e.is_dir /\ e.path = path
    THEN SumBytes({e \in tree : ~e.is_dir /\ Under(e.path, path)})
    ELSE NONE

RECURSIVE LastComponent(_)
\* The last component of a path: the characters after its last '/'.
LastComponent(path) ==
    IF path = <<>> \/ path[Len(path)] = 47 THEN <<>>
    ELSE LastComponent(SubSeq(path, 1, Len(path) - 1)) \o <<path[Len(path)]>>

\* Path::ends_with("node_modules/") compares whole components.
EndsWithNodeModules(path) == LastComponent(path) = NODE_MODULES

RECURSIVE get_array(_)
\* get_array: the directories named node_modules met by the walk, each with
\* the home directory stripped from its front.
get_array(walk) ==
    IF walk = <<>> THEN <<>>
    ELSE LET entry == Head(walk)
         IN  (IF entry.is_dir /\ EndsWithNodeModules(entry.path)
              THEN <<trim_start_matches(entry.path, HOME)>>
              ELSE <<>>) \o get_array(Tail(walk))

\* The deny list of generate_data (lines 388-398).
DENYLIST ==
    { NODE_MODULES,
      <<46, 99, 97, 99, 104, 101>>, <<46, 118, 115, 99, 111, 100, 101>>,
      <<46, 108, 111, 99, 97, 108>>, <<46, 110, 112, 109>>, <<46, 110, 118, 109>>,
      <<46, 115, 116, 101, 97, 109>>, <<46, 118, 97, 114>>,
      <<46, 99, 97, 114, 103, 111>>,
      <<47, 99, 97, 99, 104, 101, 115, 47>>, <<47, 67, 97, 99, 104, 101, 115, 47>> }

\* The directory generate_data measures for a name: the name without its
\* last 13 characters ("/node_modules"), under the home directory.
ParentOf(name) == SubSeq(name, 1, Len(name) - 13)

\* The deny list applied to the whole name, "/node_modules" included: no
\* name passes.
DeniedWholeName(name) == \E d \in DENYLIST : Contains(name, d)

Denied(name) == \E d \in DENYLIST : Contains(ParentOf(name), d)

\* One Data record (lines 406-410).
Data(name, size) ==
    [name |-> name, size |-> size, selected_for_deletion |-> UNCHECKED]

RECURSIVE generate_data(_, _)
\* generate_data: one unmarked entry per name that passes the deny list, in
\* the order of the names, with the formatted size of the measured directory.
generate_data(tree, names) ==
    IF names = <<>> THEN <<>>
    ELSE LET name == Head(names)
             size == get_size_in_bytes(tree, HOME \o ParentOf(name))
         IN  (IF Denied(name) THEN <<>>
              ELSE <<Data(name, ByteSizeToString(size))>>)
                 \o generate_data(tree, Tail(names))

\* get_size_in_bytes(..).expect("REASON") panics for a name that passes the
\* deny list and whose measured directory does not exist.
generate_data_panics(tree, names) ==
    \E k \in DOMAIN names :
        /\ ~Denied(names[k])
        /\ get_size_in_bytes(tree, HOME \o ParentOf(names[k])) = NONE

RECURSIVE SeqMax(_)
\* Iterator::max().unwrap_or(0) over the widths.
SeqMax(widths) ==
    IF widths = <<>> THEN 0
    ELSE LET m == SeqMax(Tail(widths))
         IN  IF Head(widths) >= m THEN Head(widths) ELSE m

\* constraint_len_calculator: (selected_len, name_len, parent_len).
constraint_len_calculator(items) ==
    LET name_len     == SeqMax([k \in DOMAIN items |-> UnicodeWidth(items[k].name)])
        parent_len   == SeqMax([k \in DOMAIN items |-> UnicodeWidth(items[k].size)])
        selected_len ==
            SeqMax([k \in DOMAIN items |-> UnicodeWidth(items[k].selected_for_deletion)])
    IN  <<selected_len, name_len, parent_len>>

\* ---------------------------------------------------------------- the App
PALETTES == <<"EMERALD", "INDIGO", "RED", "BLUE">>

ITEM_HEIGHT == 4

VARIABLES
    app,              \* the App struct (lines 97-107)
    pc,               \* "loop": waiting for a key; "removing": inside the
                      \* parallel iterator of remove_directories; "exited";
                      \* "panicked"
    tree,             \* the entries of the file system under the home directory
    tasks,            \* remove_directories: the items the parallel iterator has
                      \* not yet visited
    attempts,         \* the bag of the paths handed to remove_dir_all so far
    overflow_checks   \* the build: TRUE when arithmetic overflow panics (debug),
                      \* FALSE when it wraps (release)

vars == <<app, pc, tree, tasks, attempts, overflow_checks>>

\* App::new (lines 110-131) over the result of the scan.
new(data_vec) ==
    LET scroll_bar_length == IF Len(data_vec) # 0 THEN Len(data_vec) - 1 ELSE 0
    IN  [ state             |-> 0,
          longest_item_lens |-> constraint_len_calculator(data_vec),
          scroll_state      |-> [content_length |-> scroll_bar_length * ITEM_HEIGHT,
                                 position       |-> 0],
          colors            |-> PALETTES[1],
          color_index       |-> 0,
          items             |-> data_vec,
          delete_folder     |-> [k \in DOMAIN data_vec |-> FALSE],
          sorted_by         |-> 0,
          selected_size     |-> 0 ]

\* usize / u64 subtraction, addition and multiplication in a release build.
WrappingSub(a, b) == (a - b) % WordModulus

WrappingAdd(a, b) == (a + b) % WordModulus

WrappingMul(a, b) == (a * b) % WordModulus

\* App::draw (lines 262-271): set_colors, then the table is rendered with
\* self.state (line 334). Rendering a Table with its state brings a selection
\* past the last row back to the last row and clears the selection of a table
\* without rows (the terminal is taken to have room for the table).
draw(a) ==
    LET coloured == [a EXCEPT !.colors = PALETTES[a.color_index + 1]]
        rows     == Len(a.items)
    IN  IF rows = 0 THEN [coloured EXCEPT !.state = NONE]
        ELSE IF a.state # NONE /\ a.state >= rows
             THEN [coloured EXCEPT !.state = rows - 1]
        ELSE coloured

\* next_row (lines 132-145). self.items.len() - 1 overflows on an empty list.
next_row_panics(a, oc) ==
    a.state # NONE /\ Len(a.items) = 0 /\ oc

\* next_row with the wrap test one row late (i >= len instead of i >= len - 1).
next_row_wraps_late(a) ==
    LET i == IF a.state # NONE
             THEN IF a.state >= Len(a.items) THEN 0 ELSE a.state + 1
             ELSE 0
    IN  [a EXCEPT !.state = i,
                  !.scroll_state.position = WrappingMul(i, ITEM_HEIGHT)]

next_row(a) ==
    LET i == IF a.state # NONE
             THEN IF a.state >= WrappingSub(Len(a.items), 1) THEN 0 ELSE a.state + 1
             ELSE 0
    IN  [a EXCEPT !.state = i,
                  !.scroll_state.position = WrappingMul(i, ITEM_HEIGHT)]

\* previous_row (lines 147-160).
previous_row_index(a) ==
    IF a.state # NONE
    THEN IF a.state = 0 THEN WrappingSub(Len(a.items), 1) ELSE a.state - 1
    ELSE 0

previous_row_panics(a, oc) ==
    /\ oc
    /\ \/ a.state = 0 /\ Len(a.items) = 0
       \/ previous_row_index(a) * ITEM_HEIGHT >= WordModulus

previous_row(a) ==
    LET i == previous_row_index(a)
    IN  [a EXCEPT !.state = i,
                  !.scroll_state.position = WrappingMul(i, ITEM_HEIGHT)]

\* select_for_deletion (lines 162-179). The row is self.state.selected(), or 0;
\* rows are counted from 0 and TLA+ sequences from 1.
cursor_row(a) == IF a.state # NONE THEN a.state ELSE 0

select_for_deletion_panics(a, oc) ==
    LET i == cursor_row(a)
    IN  \/ i >= Len(a.items)                              \* self.items[i]
        \/ ByteSizeFromStr(a.items[i + 1].size) = NONE    \* .unwrap()
        \/ i >= Len(a.delete_folder)                      \* self.delete_folder[i]
        \/ /\ oc
           /\ LET abc == ByteSizeFromStr(a.items[i + 1].size)
              IN  IF a.delete_folder[i + 1]
                  THEN a.selected_size < abc
                  ELSE a.selected_size + abc >= WordModulus

select_for_deletion(a) ==
    LET i   == cursor_row(a)
        abc == ByteSizeFromStr(a.items[i + 1].size)
    IN  IF a.delete_folder[i + 1]
        THEN [a EXCEPT !.delete_folder[i + 1] = FALSE,
                       !.items[i + 1].selected_for_deletion = UNCHECKED,
                       !.selected_size = WrappingSub(a.selected_size, abc)]
        ELSE [a EXCEPT !.delete_folder[i + 1] = TRUE,
                       !.items[i + 1].selected_for_deletion = CHECKED,
                       !.selected_size = WrappingAdd(a.selected_size, abc)]

\* next_color, previous_color (lines 181-188).
next_color(a) ==
    [a EXCEPT !.color_index = (a.color_index + 1) % Len(PALETTES)]

previous_color(a) ==
    LET count == Len(PALETTES)
    IN  [a EXCEPT !.color_index = (a.color_index + count - 1) % count]

\* The sort keys of sort_by_next_field, by the value of sorted_by at the call.
SortKey(data, sorted_by) ==
    IF sorted_by = 0 THEN data.name
    ELSE IF sorted_by = 1 THEN data.selected_for_deletion
    ELSE data.size

RECURSIVE InsertByKeyDescending(_, _, _)
\* InsertByKey with the comparison turned around: the sort comes out descending.
InsertByKeyDescending(sorted, x, sorted_by) ==
    IF sorted = <<>> THEN <<x>>
    ELSE IF StrLess(SortKey(Head(sorted), sorted_by), SortKey(x, sorted_by))
         THEN <<x>> \o sorted
         ELSE <<Head(sorted)>> \o InsertByKeyDescending(Tail(sorted), x, sorted_by)

RECURSIVE InsertByKey(_, _, _)
\* x put into the sorted sequence, behind every entry whose key is not above
\* its own: entries with equal keys keep their order (sort_by_key is stable).
InsertByKey(sorted, x, sorted_by) ==
    IF sorted = <<>> THEN <<x>>
    ELSE IF StrLess(SortKey(x, sorted_by), SortKey(Head(sorted), sorted_by))
         THEN <<x>> \o sorted
         ELSE <<Head(sorted)>> \o InsertByKey(Tail(sorted), x, sorted_by)

RECURSIVE sort_by_key(_, _)
\* slice::sort_by_key
sort_by_key(items, sorted_by) ==
    IF items = <<>> THEN <<>>
    ELSE InsertByKey(sort_by_key(SubSeq(items, 1, Len(items) - 1), sorted_by),
                     items[Len(items)], sorted_by)

\* The value of sorted_by after a call (lines 198, 203, 207).
next_sorted_by(sorted_by) ==
    IF sorted_by = 0 THEN 1 ELSE IF sorted_by = 1 THEN 2 ELSE 0

\* sort_by_next_field (lines 194-210).
sort_by_next_field(a) ==
    [a EXCEPT !.items = sort_by_key(a.items, a.sorted_by),
              !.sorted_by = next_sorted_by(a.sorted_by)]

\* self.items.reverse() (line 253).
reverse(a) ==
    [a EXCEPT !.items = [k \in DOMAIN a.items |-> a.items[Len(a.items) + 1 - k]]]

\* remove_directories (lines 212-235).
\* The path a marked item hands to remove_dir_all (line 223).
file_path(data) == HOME \o data.name

\* The closure of the parallel iterator takes the marked items (line 221).
marked_for_removal(data) == data.selected_for_deletion = CHECKED

\* items_to_remove (lines 216-230): the paths of the marked items.
items_to_remove(items) ==
    {file_path(items[k]) : k \in {j \in DOMAIN items : marked_for_removal(items[j])}}

RECURSIVE retain(_, _)
\* Vec::retain with the closure of line 234: the entries whose path is not
\* among the removed ones, in their order.
retain(items, removed) ==
    IF items = <<>> THEN <<>>
    ELSE (IF file_path(Head(items)) \notin removed THEN <<Head(items)>> ELSE <<>>)
             \o retain(Tail(items), removed)

\* A retain that keeps the same entries and leaves them in the opposite
\* order.
retain_items_reordering(a) ==
    LET kept == retain(a.items, items_to_remove(a.items))
    IN  [a EXCEPT !.items = [k \in 1..Len(kept) |-> kept[Len(kept) + 1 - k]]]

\* The end of remove_directories (lines 232-235).
retain_items(a) ==
    [a EXCEPT !.items = retain(a.items, items_to_remove(a.items))]

\* remove_dir_all(path) when it succeeds: the subtree of path is gone.
remove_dir_all(t, path) == {e \in t : ~Under(e.path, path)}

TypeOK ==
    /\ pc \in {"loop", "removing", "exited", "panicked"}
    /\ overflow_checks \in BOOLEAN
    /\ tasks \subseteq DOMAIN app.items
    /\ app.color_index \in 0..(Len(PALETTES) - 1)
    /\ app.sorted_by \in 0..2

\* ------------------------------------------------------------------- Init
\* main: App::new() over the scan of a home directory that holds at most
\* MaxProjects of the projects, read in any order, in a debug or a release
\* build. The scan panics when a measured directory does not exist.
Start(universe) ==
    \E installed \in {S \in SUBSET universe : Cardinality(S) <= MaxProjects} :
        \E order \in Orderings(installed) :
            LET walk  == WalkDir(order)
                names == get_array(walk)
                files == Range(walk)
            IN  /\ tree = files
                /\ IF generate_data_panics(files, names)
                   THEN pc = "panicked" /\ app = new(<<>>)
                   ELSE pc = "loop" /\ app = new(generate_data(files, names))
                /\ tasks = {}
                /\ attempts = EmptyBag
                /\ overflow_checks \in BOOLEAN

Init == Start(Projects)

\* The same over a home directory whose projects have different names.
InitDistinct == Start(DistinctProjects)

\* ---------------------------------------------------------------- actions
\* The App once terminal.draw has returned (line 239).
drawn == draw(app)

\* One turn of the loop of App::run (lines 238-259): the frame is drawn, a key
\* press is read and its handler runs; a handler that panics ends the program.
\* panics: whether the handler panics on the drawn App; handled: the App it
\* leaves otherwise.
KeyPress(panics, handled) ==
    /\ IF panics
       THEN app' = drawn /\ pc' = "panicked"
       ELSE app' = handled /\ pc' = "loop"
    /\ UNCHANGED <<tree, tasks, attempts, overflow_checks>>

\* KeyCode::Char('q') | KeyCode::Esc (line 244)
Quit ==
    /\ pc = "loop"
    /\ app' = drawn
    /\ pc' = "exited"
    /\ UNCHANGED <<tree, tasks, attempts, overflow_checks>>

\* KeyCode::Char('j') | KeyCode::Down (line 245)
KeyDown ==
    /\ pc = "loop"
    /\ KeyPress(next_row_panics(drawn, overflow_checks),
                next_row(drawn))

\* KeyCode::Char('k') | KeyCode::Up (line 246)
KeyUp ==
    /\ pc = "loop"
    /\ KeyPress(previous_row_panics(drawn, overflow_checks),
                previous_row(drawn))

\* KeyCode::Char('l') | KeyCode::Right (line 247)
KeyRight ==
    /\ pc = "loop"
    /\ KeyPress(FALSE, next_color(drawn))

\* KeyCode::Char('h') | KeyCode::Left (lines 248-250)
KeyLeft ==
    /\ pc = "loop"
    /\ KeyPress(FALSE, previous_color(drawn))

\* KeyCode::Enter (line 251)
KeyEnter ==
    /\ pc = "loop"
    /\ KeyPress(select_for_deletion_panics(drawn, overflow_checks),
                select_for_deletion(drawn))
    /\ \/ app'.selected_size <= MaxSelectedSize
       \/ app'.selected_size >= WordModulus - MaxSelectedSize

\* KeyCode::Char('r') (line 253)
KeyR ==
    /\ pc = "loop"
    /\ KeyPress(FALSE, reverse(drawn))

\* KeyCode::Tab (line 254)
KeyTab ==
    /\ pc = "loop"
    /\ KeyPress(FALSE, sort_by_next_field(drawn))

\* Any other key (line 255)
KeyOther ==
    /\ pc = "loop"
    /\ KeyPress(FALSE, drawn)

\* KeyCode::Char('d') (line 252): remove_directories clones the items and
\* hands them to the parallel iterator (lines 216-219).
KeyD ==
    /\ pc = "loop"
    /\ app' = drawn
    /\ pc' = "removing"
    /\ tasks' = DOMAIN app.items
    /\ UNCHANGED <<tree, attempts, overflow_checks>>

\* The closure of one item that takes the item out of the list itself.
RemoveTaskMutatesList(k) ==
    /\ pc = "removing"
    /\ k \in tasks
    /\ IF marked_for_removal(app.items[k])
       THEN LET path == file_path(app.items[k])
            IN  /\ attempts' = attempts (+) SetToBag({path})
                /\ \/ /\ \E e \in tree : e.is_dir /\ e.path = path
                      /\ tree' = remove_dir_all(tree, path)
                   \/ tree' = tree
                /\ app' = [app EXCEPT !.items = retain(app.items, {path})]
                /\ tasks' = (tasks \ {k}) \cap DOMAIN app'.items
       ELSE /\ tasks' = tasks \ {k}
            /\ UNCHANGED <<tree, attempts, app>>
    /\ UNCHANGED <<pc, overflow_checks>>

\* The closure of one item that stops the iteration at a removal that fails:
\* the items not yet visited are left out.
RemoveTaskStopsAtError(k) ==
    /\ pc = "removing"
    /\ k \in tasks
    /\ IF marked_for_removal(app.items[k])
       THEN LET path == file_path(app.items[k])
            IN  /\ attempts' = attempts (+) SetToBag({path})
                /\ \/ /\ \E e \in tree : e.is_dir /\ e.path = path
                      /\ tree' = remove_dir_all(tree, path)
                      /\ tasks' = tasks \ {k}
                   \/ /\ tree' = tree
                      /\ tasks' = {}
       ELSE /\ tasks' = tasks \ {k}
            /\ UNCHANGED <<tree, attempts>>
    /\ UNCHANGED <<app, pc, overflow_checks>>

\* The closure of the parallel iterator on one item (lines 220-229), in any
\* order with the others: remove_dir_all on the path of a marked item. The
\* removal fails when the directory is not there and may fail when it is; its
\* result is dropped.
RemoveTask(k) ==
    /\ pc = "removing"
    /\ k \in tasks
    /\ tasks' = tasks \ {k}
    /\ IF marked_for_removal(app.items[k])
       THEN LET path == file_path(app.items[k])
            IN  /\ attempts' = attempts (+) SetToBag({path})
                /\ \/ /\ \E e \in tree : e.is_dir /\ e.path = path
                      /\ tree' = remove_dir_all(tree, path)
                   \/ tree' = tree
       ELSE UNCHANGED <<tree, attempts>>
    /\ UNCHANGED <<app, pc, overflow_checks>>

\* collect() has joined every task: the retain of lines 233-234.
RemoveDone ==
    /\ pc = "removing"
    /\ tasks = {}
    /\ app' = retain_items(app)
    /\ pc' = "loop"
    /\ UNCHANGED <<tree, tasks, attempts, overflow_checks>>

\* The keys that act on the table: move, toggle, delete, reverse, sort, quit.
NextTable ==
    \/ Quit
    \/ KeyDown
    \/ KeyUp
    \/ KeyEnter
    \/ KeyD
    \/ KeyR
    \/ KeyTab
    \/ \E k \in tasks : RemoveTask(k)
    \/ RemoveDone

\* The keys that leave the table alone: the colours and every other key.
NextOther ==
    \/ KeyRight
    \/ KeyLeft
    \/ KeyOther

Next == NextTable \/ NextOther

\* The whole program.
Spec == Init /\ [][Next]_vars

\* The program under the keys that act on the table.
SpecTable == Init /\ [][NextTable]_vars

\* The same from a home directory whose projects have different names.
SpecDistinct == InitDistinct /\ [][NextTable]_vars

\* ================================================================= claims
\* The byte value of an entry: its size label parsed back.
ByteValue(data) == ByteSizeFromStr(data.size)

Marked(data) == data.selected_for_deletion = CHECKED

RECURSIVE MarkedTotal(_)
\* The sum of the byte values of the marked entries of a list.
MarkedTotal(items) ==
    IF items = <<>> THEN 0
    ELSE (IF Marked(Head(items)) THEN ByteValue(Head(items)) ELSE 0)
             + MarkedTotal(Tail(items))

RECURSIVE UnmarkedOf(_)
\* The unmarked entries of a list, in their order.
UnmarkedOf(items) ==
    IF items = <<>> THEN <<>>
    ELSE (IF Marked(Head(items)) THEN <<>> ELSE <<Head(items)>>)
             \o UnmarkedOf(Tail(items))

\* The step on which remove_directories returns.
RemoveReturns == pc = "removing" /\ pc' = "loop"

\* C1: when remove_directories returns, the entry list holds exactly the
\* entries that were unmarked before the call (the items do not change between
\* the call and the retain that ends it).
C1_RemovesExactlyMarked ==
    [][RemoveReturns => app'.items = UnmarkedOf(app.items)]_vars

\* C2: when remove_directories returns, selected_size is the sum of the byte
\* values of the remaining marked entries, which is 0.
C2_TotalResetAfterRemove ==
    [][RemoveReturns =>
          /\ app'.selected_size = MarkedTotal(app'.items)
          /\ app'.selected_size = 0]_vars

\* C3: in every state in which the program waits for a key, selected_size is
\* the sum of the byte values of the entries whose glyph is checked.
C3_TotalIsSumOfMarked ==
    pc = "loop" => app.selected_size = MarkedTotal(app.items)

\* C4: whenever the entry list is not empty, the cursor is an index into it.
C4_CursorValid ==
    (pc = "loop" /\ Len(app.items) > 0) =>
        (app.state # NONE /\ app.state < Len(app.items))

\* C5: on a non-empty list select_for_deletion flips the glyph of the entry at
\* the cursor and of no other entry, and adds the entry's byte value to
\* selected_size when it becomes marked and subtracts it when it becomes
\* unmarked, without a panic.
C5_ToggleFlipsCursorEntry ==
    (pc = "loop" /\ Len(app.items) > 0) =>
        LET a == drawn
            r == select_for_deletion(a)
            i == cursor_row(a) + 1
        IN  /\ ~select_for_deletion_panics(a, overflow_checks)
            /\ Len(r.items) = Len(a.items)
            /\ \A k \in DOMAIN a.items :
                   /\ r.items[k].name = a.items[k].name
                   /\ r.items[k].size = a.items[k].size
                   /\ Marked(r.items[k]) = (IF k = i THEN ~Marked(a.items[k])
                                                     ELSE Marked(a.items[k]))
            /\ r.selected_size =
                   (IF Marked(r.items[i])
                    THEN a.selected_size + ByteValue(a.items[i])
                    ELSE a.selected_size - ByteValue(a.items[i]))

\* C6: on a non-empty list two calls of select_for_deletion with no cursor move
\* in between bring the glyph of the entry at the cursor and selected_size
\* back to what they were.
C6_ToggleTwiceRestores ==
    (pc = "loop" /\ Len(app.items) > 0) =>
        LET a  == drawn
            r1 == select_for_deletion(a)
            r2 == select_for_deletion(draw(r1))
            i  == cursor_row(a) + 1
        IN  /\ ~select_for_deletion_panics(a, overflow_checks)
            /\ ~select_for_deletion_panics(draw(r1), overflow_checks)
            /\ r2.items[i].selected_for_deletion = a.items[i].selected_for_deletion
            /\ r2.selected_size = a.selected_size

\* What C7 asks of a handler on an empty list: no panic, and the entries, the
\* marks and the total are what they were.
NoOp(a, panics, r) ==
    /\ ~panics
    /\ r.items = a.items
    /\ r.delete_folder = a.delete_folder
    /\ r.selected_size = a.selected_size

\* C7: on an empty list next_row, previous_row and select_for_deletion are
\* no-ops: no panic, and the entries, the marks and the total are unchanged.
C7_EmptyListNoOps ==
    (pc = "loop" /\ Len(app.items) = 0) =>
        LET a == drawn
        IN  /\ NoOp(a, next_row_panics(a, overflow_checks), next_row(a))
            /\ NoOp(a, previous_row_panics(a, overflow_checks), previous_row(a))
            /\ select_for_deletion_panics(a, overflow_checks) = FALSE

RECURSIVE Times(_, _, _)
\* The handler of the key (TRUE: next_row, FALSE: previous_row) applied n times,
\* a frame drawn before each.
Times(n, down, a) ==
    IF n = 0 THEN a
    ELSE Times(n - 1, down, IF down THEN next_row(draw(a)) ELSE previous_row(draw(a)))

\* C8: on a list of n >= 1 entries next_row moves the cursor one row down and
\* from the last row to row 0, previous_row one row up and from row 0 to row
\* n - 1, neither panics, and n calls of either bring the cursor back.
C8_CursorWraps ==
    (pc = "loop" /\ Len(app.items) >= 1) =>
        LET a == drawn
            n == Len(a.items)
        IN  /\ ~next_row_panics(a, overflow_checks)
            /\ ~previous_row_panics(a, overflow_checks)
            /\ next_row(a).state = (IF a.state = n - 1 THEN 0 ELSE a.state + 1)
            /\ previous_row(a).state = (IF a.state = 0 THEN n - 1 ELSE a.state - 1)
            /\ Times(n, TRUE, a).state = a.state
            /\ Times(n, FALSE, a).state = a.state

\* C8 witness: the cursor has moved to the last of three rows.
C8_Witness ==
    pc = "loop" /\ Len(app.items) = 3 /\ app.state = 2

\* The string a call of sort_by_next_field compares, by the key active at the
\* call: 0 the name, 1 the marked glyph, 2 the size label.
ActiveKey(data, active) ==
    CASE active = 0 -> data.name
      [] active = 1 -> data.selected_for_deletion
      [] active = 2 -> data.size

NonDecreasing(items, active) ==
    \A k \in 1..(Len(items) - 1) :
        StrLeq(ActiveKey(items[k], active), ActiveKey(items[k + 1], active))

\* C9: sort_by_next_field leaves the list in non-decreasing order of the string
\* of the key active at the call, the key goes name, marked glyph, size, and
\* three calls in a row bring sorted_by back.
C9_SortCycle ==
    pc = "loop" =>
        LET a  == drawn
            r1 == sort_by_next_field(a)
            r2 == sort_by_next_field(draw(r1))
            r3 == sort_by_next_field(draw(r2))
        IN  /\ NonDecreasing(r1.items, a.sorted_by)
            /\ NonDecreasing(r2.items, r1.sorted_by)
            /\ NonDecreasing(r3.items, r2.sorted_by)
            /\ r1.sorted_by = (a.sorted_by + 1) % 3
            /\ r2.sorted_by = (a.sorted_by + 2) % 3
            /\ r3.sorted_by = a.sorted_by

\* C9 witness: two sorts have run on three entries, one of them marked: the
\* list is in the order of the marked glyph and the next key is the size.
C9_Witness ==
    /\ pc = "loop"
    /\ Len(app.items) = 3
    /\ app.sorted_by = 2
    /\ \E k \in DOMAIN app.items : Marked(app.items[k])
    /\ \E k \in DOMAIN app.items : ~Marked(app.items[k])
    /\ NonDecreasing(app.items, 1)

\* C10: constraint_len_calculator gives the widest name first and the widest
\* size second (as its test reads the result), and 0 throughout for no entries.
C10_ColumnWidths ==
    pc = "loop" =>
        LET r == constraint_len_calculator(app.items)
        IN  /\ r[1] = SeqMax([k \in DOMAIN app.items |-> UnicodeWidth(app.items[k].name)])
            /\ r[2] = SeqMax([k \in DOMAIN app.items |-> UnicodeWidth(app.items[k].size)])
            /\ (app.items = <<>> => r = <<0, 0, 0>>)

\* The node_modules directories of a tree.
Candidates(t) == {e \in t : e.is_dir /\ EndsWithNodeModules(e.path)}

\* Whether a deny-listed string occurs in the ancestors of a candidate: in
\* its path without the last component.
AncestorDenied(path) ==
    \E d \in DENYLIST : Contains(SubSeq(path, 1, Len(path) - Len(NODE_MODULES) - 1), d)

\* The scan has built the list and nothing has been removed yet: the tree is
\* the one the scan has read.
ListBuilt == pc # "panicked" /\ attempts = EmptyBag

C12_SizeOfOwnSubtree ==
    ListBuilt =>
        \A k \in DOMAIN app.items :
            \E e \in Candidates(tree) :
                /\ trim_start_matches(e.path, HOME) = app.items[k].name
                /\ app.items[k].size = ByteSizeToString(get_size_in_bytes(tree, e.path))

\* The size of the directory generate_data measures for a candidate cannot
\* be read: the candidate is listed, the measured directory is missing.
SizeFails(t) ==
    \E e \in Candidates(t) :
        LET name == trim_start_matches(e.path, HOME)
        IN  /\ ~Denied(name)
            /\ get_size_in_bytes(t, HOME \o ParentOf(name)) = NONE

\* C13: a size computation that fails at startup does not abort the scan: the
\* program does not panic and the list is built, with a row for every
\* candidate whose size can be read.
C13_ScanSurvivesSizeFailure ==
    (attempts = EmptyBag /\ SizeFails(tree)) =>
        /\ pc # "panicked"
        /\ \A e \in Candidates(tree) :
               LET name == trim_start_matches(e.path, HOME)
               IN  (~Denied(name) /\ get_size_in_bytes(tree, HOME \o ParentOf(name)) # NONE)
                       => \E k \in DOMAIN app.items : app.items[k].name = name

\* The items the parallel iterator has visited in the running removal.
Visited == DOMAIN app.items \ tasks

\* C14: remove_directories attempts a removal for every marked entry, whether
\* or not another removal has failed: at any point of the operation every
\* marked entry visited so far has had its own attempt (its path has as many
\* attempts as marked visited entries that have it), every entry not yet
\* visited can still be visited, and once all are visited the operation can
\* complete.
C14_EveryMarkedAttempted ==
    pc = "removing" =>
        /\ \A k \in Visited :
               marked_for_removal(app.items[k]) =>
                   CopiesIn(file_path(app.items[k]), attempts)
                       = Cardinality({j \in Visited :
                             /\ marked_for_removal(app.items[j])
                             /\ file_path(app.items[j]) = file_path(app.items[k])})
        /\ \A k \in tasks : ENABLED RemoveTask(k)
        /\ tasks = {} => ENABLED RemoveDone

\* C14 witness: the operation is at its end with two marked entries, one
\* whose removal has failed (its directory is still there) and one whose
\* removal has succeeded.
C14_Witness ==
    /\ pc = "removing"
    /\ tasks = {}
    /\ \E k, j \in DOMAIN app.items :
           /\ k # j
           /\ marked_for_removal(app.items[k])
           /\ marked_for_removal(app.items[j])
           /\ file_path(app.items[k]) # file_path(app.items[j])
           /\ \E e \in tree : e.path = file_path(app.items[k])
           /\ ~\E e \in tree : e.path = file_path(app.items[j])
           /\ BagIn(file_path(app.items[k]), attempts)
           /\ BagIn(file_path(app.items[j]), attempts)

\* An entry without its glyph, and a list of them.
Entry(data) == <<data.name, data.size>>
Entries(items) == [k \in DOMAIN items |-> Entry(items[k])]

RECURSIVE IsSubsequence(_, _)
\* Whether s is t with some elements left out, the others in their order.
IsSubsequence(s, t) ==
    IF s = <<>> THEN TRUE
    ELSE IF t = <<>> THEN FALSE
    ELSE IF Head(s) = Head(t) THEN IsSubsequence(Tail(s), Tail(t))
    ELSE IsSubsequence(s, Tail(t))

\* C15: every step that is not a sort or a reverse (a cursor move, a toggle,
\* a removal task, the retain that ends a removal) leaves the entries that
\* remain in their relative order and adds none, and so do the two colour
\* handlers, which leave the list as it is.
C15_OrderKept ==
    [][/\ \/ IsSubsequence(Entries(app'.items), Entries(app.items))
          \/ pc = "loop" /\ app' = sort_by_next_field(drawn)
          \/ pc = "loop" /\ app' = reverse(drawn)
       /\ next_color(drawn).items = drawn.items
       /\ previous_color(drawn).items = drawn.items
       /\ pc = "removing" => IsSubsequence(Entries(app'.items), Entries(app.items))]_vars

\* C15 witness: a removal has taken an entry out of a list and two different
\* entries remain.
C15_Witness ==
    /\ pc = "loop"
    /\ attempts # EmptyBag
    /\ Len(app.items) = 2
    /\ Entry(app.items[1]) # Entry(app.items[2])

\* C16: removal never acts twice: when remove_directories returns no entry is
\* left marked, so calling it again attempts nothing and leaves the list as
\* it is; and along any run no path is handed to remove_dir_all more than
\* once.
C16_NeverRedeletes ==
    [][/\ \A p \in BagToSet(attempts') : CopiesIn(p, attempts') <= 1
       /\ RemoveReturns =>
              /\ items_to_remove(app'.items) = {}
              /\ retain_items(app') = app']_vars

\* C17: the removal tasks leave the App alone: while remove_directories runs,
\* under every interleaving of its tasks, the App changes in one step only,
\* once every task has finished; that step ends the operation, takes out of
\* the list the entries whose path had a removal attempt, keeps the others in
\* order and changes nothing else of the App.
C17_TasksLeaveListAlone ==
    [][pc = "removing" =>
           /\ tasks # {} => app' = app
           /\ app' # app =>
                  /\ tasks = {}
                  /\ pc' = "loop"
                  /\ app' = [app EXCEPT !.items = app'.items]
                  /\ IsSubsequence(app'.items, app.items)
                  /\ \A k \in DOMAIN app.items :
                         BagIn(file_path(app.items[k]), attempts)
                             <=> ~\E j \in DOMAIN app'.items :
                                      file_path(app'.items[j]) = file_path(app.items[k])]_vars

\* C17 witness: a task has removed the directory of a marked entry, other
\* tasks are still to run, and the entry is still in the list.
C17_Witness ==
    /\ pc = "removing"
    /\ tasks # {}
    /\ \E k \in Visited :
           /\ marked_for_removal(app.items[k])
           /\ BagIn(file_path(app.items[k]), attempts)
           /\ ~\E e \in tree : e.path = file_path(app.items[k])

\* C18: in every reachable state delete_folder agrees with the list: it is as
\* long as items, and delete_folder[i] is true exactly when items[i] shows the
\* checked glyph.
C18_FlagsAgree ==
    /\ Len(app.delete_folder) = Len(app.items)
    /\ \A k \in DOMAIN app.items :
           k \in DOMAIN app.delete_folder
               => (app.delete_folder[k] <=> Marked(app.items[k]))

\* C19: selected_size never underflows: it never holds a wrapped value, and in
\* no state where a key is awaited would select_for_deletion subtract from it
\* more than it holds.
C19_NoUnderflow ==
    /\ app.selected_size <= MaxSelectedSize
    /\ pc = "loop" =>
           LET i == cursor_row(drawn)
           IN  (/\ i < Len(drawn.items)
                /\ i < Len(drawn.delete_folder)
                /\ drawn.delete_folder[i + 1])
                   => drawn.selected_size >= ByteValue(drawn.items[i + 1])

====
